---- MODULE Spec2Model ----
(***************************************************************************)
(* The App component of smartmap: the debounced message handler, its       *)
(* cooldown, the request chains it starts (AI call, coordinate extraction, *)
(* optional directions call), and the two effects that run after a render. *)
(*                                                                         *)
(* State updates made in one synchronous stretch of code are rendered as   *)
(* one commit (React batches them); the effects whose dependencies changed *)
(* in that commit run next, before anything else, as the step RunEffects.  *)
(* ChatView and MapView are the environment: OnSendMessage is the prop the *)
(* App hands to ChatView.                                                  *)
(***************************************************************************)
EXTENDS Integers, Sequences, FiniteSets, TLC

(***************************************************************************)
(* Bounds of the model.                                                    *)
(***************************************************************************)
\* Calls of onSendMessage the environment makes.
MaxSubs == 2
\* Calls of onSendMessage the environment makes while the AI service answers
\* without coordinates (the specification SpecBurst).
MaxBurst == 3

(***************************************************************************)
(* Program constants.                                                      *)
(***************************************************************************)
REQUEST_COOLDOWN == 1000
DEBOUNCE_WAIT == 500

\* The clock advances in quarter-cooldown steps.
TickMs == REQUEST_COOLDOWN \div 4
\* Time spans are followed up to one step past the cooldown: longer spans
\* compare with REQUEST_COOLDOWN and DEBOUNCE_WAIT as this one does.
LongAgo == REQUEST_COOLDOWN + TickMs

(***************************************************************************)
(* Texts.  A text is a sequence of tokens: a word (k = "w"), a bracketed   *)
(* numeric pair "[a, b]" (k = "p"), or the distance/time lines (k = "d").  *)
(* Latitudes and longitudes are in thousandths of a degree.                *)
(* The vocabulary is chosen so that a keyword is a substring of a text     *)
(* exactly when it is (case aside) one of its word tokens.                 *)
(***************************************************************************)
W(w) == [k |-> "w", w |-> w, a |-> 0, b |-> 0]
Pair(a, b) == [k |-> "p", w |-> "", a |-> a, b |-> b]

WelcomeText == <<W("Hello"), W(" "), W("Where is"), W(" "), W("Tower"), W("?")>>
TxTower == <<W("Where is"), W(" "), W("Tower"), W("?")>>
TxBlank == <<W(" ")>>
UserTexts == {TxTower, TxBlank}

\* What the AI service may answer.
AiNone == <<W("hello")>>
AiOne == <<W("park"), W(" "), Pair(10000, 20000)>>
AiTwo == <<W("Route"), W(" "), Pair(10000, 20000), W(" "), Pair(30000, 40000)>>
AiBad == <<W("Route"), W(" "), Pair(95000, 20000), W(" "), Pair(30000, 40000)>>
AiTexts == {AiNone, AiOne, AiTwo, AiBad}

FallbackText == <<W("I'm having trouble processing your request. Please try again.")>>
ErrorText == <<W("An error occurred. Please try again.")>>
ApologySuffix == <<W("I apologize, but I couldn't calculate the detailed route at the moment.")>>

\* What the routing service may answer: the decoded path with its summary.
Directions == {
    [route |-> <<(<<10000, 20000>>), (<<20000, 31000>>), (<<30000, 42000>>)>>,
     distance |-> 3300, duration |-> 2200] }

\* String.prototype.trim() leaves nothing.
IsBlank(text) == \A i \in 1..Len(text) : text[i].k = "w" /\ text[i].w = " "

ToLowerCase(w) ==
    CASE w = "Tower" -> "tower"
      [] w = "Where is" -> "where is"
      [] w = "Hello" -> "hello"
      [] w = "Route" -> "route"
      [] OTHER -> w

\* text.toLowerCase().includes(type)
Includes(text, type) ==
    \E i \in 1..Len(text) : text[i].k = "w" /\ ToLowerCase(text[i].w) = type

RECURSIVE DropLeadingSpaces(_)
DropLeadingSpaces(text) ==
    IF Len(text) > 0 /\ text[1] = W(" ") THEN DropLeadingSpaces(Tail(text)) ELSE text

\* message.replace(/^(where is|show me|find|locate)\s+/i, '').replace(/[?.!]$/, '')
LocationName(message) ==
    LET verb == Len(message) >= 2
                /\ message[1].k = "w"
                /\ ToLowerCase(message[1].w) \in {"where is", "show me", "find", "locate"}
                /\ message[2] = W(" ")
        rest == IF verb THEN DropLeadingSpaces(Tail(message)) ELSE message
        punct == Len(rest) >= 1 /\ rest[Len(rest)] \in {W("?"), W("."), W("!")}
    IN  IF punct THEN SubSeq(rest, 1, Len(rest) - 1) ELSE rest

(***************************************************************************)
(* Coordinates.                                                            *)
(***************************************************************************)
\* validateCoordinates throws; the matched numerals are never NaN.
ValidateThrows(lat, lng) == lat < -90000 \/ lat > 90000 \/ lng < -180000 \/ lng > 180000

\* aiResponse.match(/\[(-?\d+\.?\d*),\s*(-?\d+\.?\d*)\]/g), in order of appearance
CoordsMatches(aiResponse) == SelectSeq(aiResponse, LAMBDA t : t.k = "p")

\* coordsMatches.map(... validateCoordinates(lat, lng)) throws at the first bad pair
ExtractionThrows(aiResponse) ==
    \E i \in 1..Len(CoordsMatches(aiResponse)) :
        ValidateThrows(CoordsMatches(aiResponse)[i].a, CoordsMatches(aiResponse)[i].b)

ExtractCoordinates(aiResponse) ==
    [i \in 1..Len(CoordsMatches(aiResponse)) |->
        <<CoordsMatches(aiResponse)[i].a, CoordsMatches(aiResponse)[i].b>>]

\* A start/end selection that takes the first and the last coordinate.
StartEndOutermost(coordinates) ==
    IF Len(coordinates) >= 2 THEN <<coordinates[1], coordinates[Len(coordinates)]>> ELSE <<>>

\* const [start, end] = coordinates ?? [] of the branch for two or more.
StartEnd(coordinates) ==
    IF Len(coordinates) >= 2 THEN <<coordinates[1], coordinates[2]>> ELSE <<>>

\* The haversine distance in metres (R = 6371 km), rounded down, of the
\* endpoint pairs the model's texts and paths can produce.
HaversineMetres(start, end) ==
    CASE start = end -> 0
      [] {start, end} = {<<10000, 20000>>, <<30000, 40000>>} -> 3040602
      [] {start, end} = {<<10000, 20000>>, <<30000, 42000>>} -> 3185400

\* A table whose first threshold is an inclusive upper bound.
RouteZoomInclusive(distance) ==
    IF distance <= 1000 THEN 15
    ELSE IF distance < 5000 THEN 13
    ELSE IF distance < 20000 THEN 11
    ELSE IF distance < 50000 THEN 10
    ELSE IF distance < 100000 THEN 9
    ELSE IF distance < 250000 THEN 7
    ELSE IF distance < 500000 THEN 6
    ELSE IF distance < 1000000 THEN 5
    ELSE IF distance < 2500000 THEN 4
    ELSE 3

\* The distance table of calculateZoom, distances in metres.
RouteZoom(distance) ==
    IF distance < 1000 THEN 15
    ELSE IF distance < 5000 THEN 13
    ELSE IF distance < 20000 THEN 11
    ELSE IF distance < 50000 THEN 10
    ELSE IF distance < 100000 THEN 9
    ELSE IF distance < 250000 THEN 7
    ELSE IF distance < 500000 THEN 6
    ELSE IF distance < 1000000 THEN 5
    ELSE IF distance < 2500000 THEN 4
    ELSE 3

Building == {"tower", "temple", "museum", "stadium", "palace", "monument",
             "building", "restaurant", "cafe", "shop"}
Area == {"park", "garden", "district", "neighborhood", "campus", "complex"}
City == {"city", "town", "village"}

\* calculateZoom(bounds, isRoute) of a render whose message list is msgs.
CalculateZoom(msgs, bounds, isRoute) ==
    IF ~isRoute
    THEN LET messageText == IF Len(msgs) > 0 THEN msgs[Len(msgs)].text ELSE <<>>
         IN  IF \E type \in Building : Includes(messageText, type) THEN 18
             ELSE IF \E type \in Area : Includes(messageText, type) THEN 16
             ELSE IF \E type \in City : Includes(messageText, type) THEN 13
             ELSE 17
    ELSE RouteZoom(HaversineMetres(bounds[1], bounds[2]))

Min(S) == CHOOSE x \in S : \A y \in S : x <= y
Max(S) == CHOOSE x \in S : \A y \in S : x >= y

\* The centre of the bounds of all extracted coordinates (the model's
\* coordinates have even component sums, so the halving is exact).
BoundsCenter(coordinates) ==
    LET latitudes == {coordinates[i][1] : i \in 1..Len(coordinates)}
        longitudes == {coordinates[i][2] : i \in 1..Len(coordinates)}
    IN  <<(Min(latitudes) + Max(latitudes)) \div 2,
          (Min(longitudes) + Max(longitudes)) \div 2>>

\* The centre the route effect computes from the first and last point.
RouteCenter(bounds) ==
    <<(bounds[1][1] + bounds[Len(bounds)][1]) \div 2,
      (bounds[1][2] + bounds[Len(bounds)][2]) \div 2>>

(***************************************************************************)
(* State.                                                                  *)
(***************************************************************************)
VARIABLES
    messages,            \* useState<Message[]>
    mapCenter,           \* useState<LatLngExpression>
    markers,             \* useState<Marker[]>
    route,               \* useState<LatLngExpression[]>(); <<>> is undefined
    isLoading,           \* useState(false)
    abortControllerRef,  \* the request whose AbortController the ref holds, 0 for null
    aborted,             \* the requests whose AbortController has been aborted
    zoom,                \* useState(13)
    pendingRequests,     \* useState<Set<string>>
    sinceLastRequest,    \* Date.now() - lastRequestTime.current, up to LongAgo
    timer,               \* the debounced function's pending timer and lastArgs
    sinceLastCall,       \* time since the last call of onSendMessage, up to DEBOUNCE_WAIT
    subs,                \* the calls of onSendMessage made so far and what became of each
    reqs,                \* the handler invocations that passed the cooldown check
    effects,             \* the effect dependencies changed by the last commit
    lastStep,            \* the last handler step that committed: <<request, kind>>
    call                 \* a function of the handler called on its own: argument, result

vars == <<messages, mapCenter, markers, route, isLoading, abortControllerRef, aborted,
          zoom, pendingRequests, sinceLastRequest, timer, sinceLastCall, subs, reqs,
          effects, lastStep, call>>

\* The state the claims call shared: what the views render.
shared == <<messages, markers, route, mapCenter, zoom>>

NoTimer == [set |-> FALSE, wait |-> 0, args |-> <<>>, sub |-> 0]
NoEffects == [d |-> FALSE, r |-> FALSE]
\* No function is being called on its own.
NoCall == [fn |-> "none", arg |-> 0, done |-> FALSE, result |-> 0]
EffectsDue == effects.d \/ effects.r

\* uuidv4(): a token no other call returns; request k makes at most one of each kind.
Uuid(k, kind) == <<k, kind>>

Mounted ==
    /\ messages = <<[id |-> Uuid(0, "welcome"), text |-> WelcomeText, isUser |-> FALSE,
                     status |-> "none"]>>
    /\ mapCenter = <<51505, -90>>
    /\ markers = <<>>
    /\ route = <<>>
    /\ isLoading = FALSE
    /\ abortControllerRef = 0
    /\ aborted = {}
    /\ zoom = 13
    /\ pendingRequests = {}
    /\ sinceLastRequest = LongAgo
    /\ timer = NoTimer
    /\ sinceLastCall = DEBOUNCE_WAIT
    /\ subs = <<>>
    /\ reqs = <<>>
    /\ effects = NoEffects
    /\ lastStep = <<0, "mount">>

Init == Mounted /\ call = NoCall

(***************************************************************************)
(* The debounce wrapper (lodash debounce, trailing edge, wait 500).        *)
(***************************************************************************)
\* A debounce that never restarts a running wait nor replaces its arguments.
DebounceCallKeepsFirst(t, text, sub) ==
    IF t.set THEN t
    ELSE [set |-> TRUE, wait |-> DEBOUNCE_WAIT, args |-> text, sub |-> sub]

\* A call of the debounced function: lastArgs is replaced and the wait restarts.
DebounceCall(t, text, sub) ==
    [set |-> TRUE, wait |-> DEBOUNCE_WAIT, args |-> text, sub |-> sub]

SetFate(ss, i, fate) == [ss EXCEPT ![i].fate = fate]

\* ChatView (or any holder of the prop) calls onSendMessage(text).
OnSendMessage(text, limit) ==
    /\ ~EffectsDue
    /\ Len(subs) < limit
    /\ LET sub == Len(subs) + 1
           all == Append(subs, [text |-> text, gap |-> sinceLastCall,
                                fate |-> "pending"])
       IN  /\ timer' = DebounceCall(timer, text, sub)
           /\ subs' = [i \in 1..sub |->
                         IF all[i].fate = "pending" /\ i # timer'.sub
                         THEN [all[i] EXCEPT !.fate = "collapsed"]
                         ELSE all[i]]
    /\ sinceLastCall' = 0
    /\ UNCHANGED <<call, messages, mapCenter, markers, route, isLoading, abortControllerRef,
                   aborted, zoom, pendingRequests, sinceLastRequest, reqs, effects,
                   lastStep>>

\* A cooldown check that also rejects at exactly REQUEST_COOLDOWN.
InCooldownInclusive(since) == since <= REQUEST_COOLDOWN

\* now - lastRequestTime.current < REQUEST_COOLDOWN
InCooldown(since) == since < REQUEST_COOLDOWN

Later(span) == IF span + TickMs > LongAgo THEN LongAgo ELSE span + TickMs

\* Time passes; a timer that is due fires before more time passes.
Tick ==
    /\ ~EffectsDue
    /\ timer.set => timer.wait > 0
    /\ timer' = IF timer.set THEN [timer EXCEPT !.wait = @ - TickMs] ELSE timer
    /\ sinceLastRequest' = Later(sinceLastRequest)
    /\ sinceLastCall' = IF sinceLastCall + TickMs > DEBOUNCE_WAIT THEN DEBOUNCE_WAIT
                         ELSE sinceLastCall + TickMs
    /\ UNCHANGED <<call, messages, mapCenter, markers, route, isLoading, abortControllerRef,
                   aborted, zoom, pendingRequests, subs, reqs, effects, lastStep>>

TimerExpired == ~EffectsDue /\ timer.set /\ timer.wait <= 0

(***************************************************************************)
(* The handler, up to its first await.                                     *)
(***************************************************************************)
\* The cooldown check throws: nothing has been touched.
RejectCooldown ==
    /\ TimerExpired
    /\ InCooldown(sinceLastRequest)
    /\ timer' = NoTimer
    /\ subs' = SetFate(subs, timer.sub, "rejected")
    /\ UNCHANGED <<call, sinceLastCall, messages, mapCenter, markers, route, isLoading, abortControllerRef,
                   aborted, zoom, pendingRequests, sinceLastRequest, reqs, effects,
                   lastStep>>

NewReq(k, pc) ==
    [id |-> Uuid(k, "user"), sub |-> timer.sub, text |-> timer.args,
     since |-> sinceLastRequest,
     pc |-> pc, closure |-> messages, ai |-> "none", aiResponse |-> <<>>,
     coordinates |-> <<>>, end |-> "none"]

\* The id is added and the time recorded; then the empty text returns.
ReturnBlank ==
    /\ TimerExpired
    /\ ~InCooldown(sinceLastRequest)
    /\ IsBlank(timer.args)
    /\ LET k == Len(reqs) + 1
       IN  /\ pendingRequests' = pendingRequests \cup {Uuid(k, "user")}
           /\ reqs' = Append(reqs, NewReq(k, "returned"))
           /\ lastStep' = <<k, "blank">>
    /\ sinceLastRequest' = 0
    /\ timer' = NoTimer
    /\ subs' = SetFate(subs, timer.sub, "invoked")
    /\ UNCHANGED <<call, sinceLastCall, messages, mapCenter, markers, route, isLoading, abortControllerRef,
                   aborted, zoom, effects>>

\* The request is dispatched: the previous controller is aborted, the user
\* message is appended and getAIResponse is awaited.
Dispatch ==
    /\ TimerExpired
    /\ ~InCooldown(sinceLastRequest)
    /\ ~IsBlank(timer.args)
    /\ LET k == Len(reqs) + 1
       IN  /\ pendingRequests' = pendingRequests \cup {Uuid(k, "user")}
           /\ aborted' = IF abortControllerRef # 0
                         THEN aborted \cup {abortControllerRef} ELSE aborted
           /\ abortControllerRef' = k
           /\ messages' = Append(messages,
                  [id |-> Uuid(k, "user"), text |-> timer.args, isUser |-> TRUE,
                   status |-> "sending"])
           /\ reqs' = Append(reqs, NewReq(k, "awaitAI"))
           /\ lastStep' = <<k, "dispatch">>
    /\ sinceLastRequest' = 0
    /\ isLoading' = TRUE
    /\ timer' = NoTimer
    /\ subs' = SetFate(subs, timer.sub, "invoked")
    /\ effects' = [d |-> TRUE, r |-> FALSE]
    /\ UNCHANGED <<call, sinceLastCall, mapCenter, markers, route, zoom>>

(***************************************************************************)
(* The handler after getAIResponse returns.                                *)
(***************************************************************************)
\* What getAIResponse may meet: an answer of the service, or its failure.
AiReplies == [ok : {TRUE}, text : AiTexts] \cup {[ok |-> FALSE, text |-> <<>>]}

\* getAIResponse: the service's text, or the fallback text when the call throws.
GetAIResponse(reply) == IF reply.ok THEN reply.text ELSE FallbackText

AssistantMessage(k, kind, text) ==
    [id |-> Uuid(k, kind), text |-> text, isUser |-> FALSE, status |-> "none"]

\* A status update that matches every user message instead of the one id.
MarkStatusAllUsers(msgs, messageId, status) ==
    [i \in 1..Len(msgs) |->
        IF msgs[i].isUser THEN [msgs[i] EXCEPT !.status = status] ELSE msgs[i]]

\* A status update that moves the marked message to the end of the list.
MarkStatusMovesToEnd(msgs, messageId, status) ==
    LET rest == SelectSeq(msgs, LAMBDA m : m.id # messageId)
        hit == SelectSeq(msgs, LAMBDA m : m.id = messageId)
    IN  rest \o [i \in 1..Len(hit) |-> [hit[i] EXCEPT !.status = status]]

\* prev.map(msg => msg.id === messageId ? { ...msg, status } : msg)
MarkStatus(msgs, messageId, status) ==
    [i \in 1..Len(msgs) |->
        IF msgs[i].id = messageId THEN [msgs[i] EXCEPT !.status = status] ELSE msgs[i]]

\* A finally block that repeats the add of the handler's start.
FinallyPendingAdds(prev, messageId) == prev \cup {messageId}

\* The finally block's update of pendingRequests.
FinallyPending(prev, messageId) == prev \ {messageId}

\* The finally block: runs on every exit of the try.
Finally(k) ==
    /\ isLoading' = FALSE
    /\ abortControllerRef' = 0
    /\ pendingRequests' = FinallyPending(pendingRequests, reqs[k].id)

Received(k, reply, pc, end) ==
    [reqs EXCEPT ![k].pc = pc, ![k].end = end,
                 ![k].ai = IF reply.ok THEN "ok" ELSE "failed",
                 ![k].aiResponse = GetAIResponse(reply),
                 ![k].coordinates = IF ExtractionThrows(GetAIResponse(reply)) THEN <<>>
                                    ELSE ExtractCoordinates(GetAIResponse(reply))]

AwaitingAI(k) == ~EffectsDue /\ k \in 1..Len(reqs) /\ reqs[k].pc = "awaitAI"

\* An error handler that logs and shows nothing.
HandleErrorSilent(prev, k) == prev

\* handleError: the error message is appended to the chat.
HandleError(prev, k) == Append(prev, AssistantMessage(k, "error", ErrorText))

\* validateCoordinates throws inside the map: catch, handleError, status error.
AIThrown(k, reply) ==
    /\ AwaitingAI(k)
    /\ ExtractionThrows(GetAIResponse(reply))
    /\ messages' = MarkStatus(HandleError(messages, k), reqs[k].id, "error")
    /\ Finally(k)
    /\ reqs' = Received(k, reply, "done", "thrown")
    /\ effects' = [d |-> TRUE, r |-> FALSE]
    /\ lastStep' = <<k, "thrown">>
    /\ UNCHANGED <<call, sinceLastCall, mapCenter, markers, route, aborted, zoom, sinceLastRequest, timer,
                   subs>>

\* No coordinate: the AI text is appended as it is.
AINone(k, reply) ==
    /\ AwaitingAI(k)
    /\ ~ExtractionThrows(GetAIResponse(reply))
    /\ Len(ExtractCoordinates(GetAIResponse(reply))) = 0
    /\ messages' = MarkStatus(
           Append(messages, AssistantMessage(k, "assistant", GetAIResponse(reply))),
           reqs[k].id, "sent")
    /\ Finally(k)
    /\ reqs' = Received(k, reply, "done", "none")
    /\ effects' = [d |-> TRUE, r |-> FALSE]
    /\ lastStep' = <<k, "none">>
    /\ UNCHANGED <<call, sinceLastCall, mapCenter, markers, route, aborted, zoom, sinceLastRequest, timer,
                   subs>>

\* One coordinate: one marker, the centre, the zoom of calculateZoom as the
\* handler's closure holds it (the render that created the debounced handler).
AIOne(k, reply) ==
    /\ AwaitingAI(k)
    /\ ~ExtractionThrows(GetAIResponse(reply))
    /\ Len(ExtractCoordinates(GetAIResponse(reply))) = 1
    /\ LET coordinates == ExtractCoordinates(GetAIResponse(reply))
       IN  /\ markers' = <<[id |-> Uuid(k, "marker"), position |-> coordinates[1],
                            popup |-> LocationName(reqs[k].text)]>>
           /\ mapCenter' = coordinates[1]
           /\ zoom' = CalculateZoom(reqs[k].closure, <<coordinates[1], coordinates[1]>>,
                                    FALSE)
    /\ messages' = MarkStatus(
           Append(messages, AssistantMessage(k, "assistant", GetAIResponse(reply))),
           reqs[k].id, "sent")
    /\ Finally(k)
    /\ reqs' = Received(k, reply, "done", "one")
    /\ effects' = [d |-> TRUE, r |-> FALSE]
    /\ lastStep' = <<k, "one">>
    /\ UNCHANGED <<call, sinceLastCall, route, aborted, sinceLastRequest, timer, subs>>

\* Two or more coordinates: the Start and End markers, then getDirections is awaited.
AIMany(k, reply) ==
    /\ AwaitingAI(k)
    /\ ~ExtractionThrows(GetAIResponse(reply))
    /\ Len(ExtractCoordinates(GetAIResponse(reply))) >= 2
    /\ LET coordinates == ExtractCoordinates(GetAIResponse(reply))
           start == StartEnd(coordinates)[1]
           end == StartEnd(coordinates)[2]
       IN  markers' = <<[id |-> Uuid(k, "start"), position |-> start,
                         popup |-> <<W("Start")>>],
                        [id |-> Uuid(k, "end"), position |-> end,
                         popup |-> <<W("End")>>]>>
    /\ reqs' = Received(k, reply, "awaitRoute", "none")
    /\ lastStep' = <<k, "many">>
    /\ UNCHANGED <<call, sinceLastCall, messages, mapCenter, route, isLoading, abortControllerRef, aborted,
                   zoom, pendingRequests, sinceLastRequest, timer, subs, effects>>

(***************************************************************************)
(* The handler after getDirections returns.                                *)
(***************************************************************************)
AwaitingRoute(k) == ~EffectsDue /\ k \in 1..Len(reqs) /\ reqs[k].pc = "awaitRoute"

\* `${aiResponse}\n\nDistance: ${distance.toFixed(1)} km\nEstimated time: ...`
EnhancedResponse(aiResponse, summary) ==
    Append(aiResponse, [k |-> "d", w |-> "", a |-> summary.distance,
                        b |-> summary.duration])

\* getDirections returned a path.
RouteOk(k, directions) ==
    /\ AwaitingRoute(k)
    /\ route' = directions.route
    /\ zoom' = CalculateZoom(reqs[k].closure, StartEnd(reqs[k].coordinates), TRUE)
    /\ messages' = MarkStatus(
           Append(messages, AssistantMessage(k, "assistant",
                      EnhancedResponse(reqs[k].aiResponse, directions))),
           reqs[k].id, "sent")
    /\ mapCenter' = BoundsCenter(reqs[k].coordinates)
    /\ Finally(k)
    /\ reqs' = [reqs EXCEPT ![k].pc = "done", ![k].end = "routeOk"]
    /\ effects' = [d |-> TRUE, r |-> TRUE]
    /\ lastStep' = <<k, "routeOk">>
    /\ UNCHANGED <<call, sinceLastCall, markers, aborted, sinceLastRequest, timer, subs>>

\* A catch that sets no line at all.
StraightLineNone(start, end) == <<>>

\* setRoute([start, end]) of the inner catch.
StraightLine(start, end) == <<start, end>>

\* getDirections threw: the straight line and the apology.
RouteFailed(k) ==
    /\ AwaitingRoute(k)
    /\ messages' = MarkStatus(
           Append(messages, AssistantMessage(k, "assistant",
                      reqs[k].aiResponse \o ApologySuffix)),
           reqs[k].id, "sent")
    /\ route' = StraightLine(StartEnd(reqs[k].coordinates)[1],
                             StartEnd(reqs[k].coordinates)[2])
    /\ mapCenter' = BoundsCenter(reqs[k].coordinates)
    /\ Finally(k)
    /\ reqs' = [reqs EXCEPT ![k].pc = "done", ![k].end = "routeFailed"]
    /\ effects' = [d |-> TRUE, r |-> TRUE]
    /\ lastStep' = <<k, "routeFailed">>
    /\ UNCHANGED <<call, sinceLastCall, markers, aborted, zoom, sinceLastRequest, timer, subs>>

(***************************************************************************)
(* The effects of a commit.                                                *)
(***************************************************************************)
\* The cleanup of the effect on [debouncedHandleMessage]: setPendingRequests(new Set()).
CleanupPending(prev) == {}

\* A change of messages re-creates calculateZoom and with it the debounced
\* handler: the cleanup of the previous handler's effect runs.  A change of
\* route or of calculateZoom runs the route effect.
RunEffects ==
    /\ EffectsDue
    /\ IF effects.d
       THEN /\ aborted' = IF abortControllerRef # 0
                          THEN aborted \cup {abortControllerRef} ELSE aborted
            /\ timer' = NoTimer
            /\ subs' = IF timer.set THEN SetFate(subs, timer.sub, "cancelled") ELSE subs
            /\ pendingRequests' = CleanupPending(pendingRequests)
       ELSE UNCHANGED <<aborted, timer, subs, pendingRequests>>
    /\ IF Len(route) >= 2
       THEN /\ zoom' = CalculateZoom(messages, <<route[1], route[Len(route)]>>, FALSE)
            /\ mapCenter' = RouteCenter(route)
       ELSE UNCHANGED <<zoom, mapCenter>>
    /\ effects' = NoEffects
    /\ UNCHANGED <<call, sinceLastCall, messages, markers, route, isLoading, abortControllerRef,
                   sinceLastRequest, reqs, lastStep>>

Next ==
    \/ \E text \in UserTexts : OnSendMessage(text, MaxSubs)
    \/ Tick
    \/ RejectCooldown
    \/ ReturnBlank
    \/ Dispatch
    \/ \E k \in 1..Len(reqs), reply \in AiReplies : AIThrown(k, reply)
    \/ \E k \in 1..Len(reqs), reply \in AiReplies : AINone(k, reply)
    \/ \E k \in 1..Len(reqs), reply \in AiReplies : AIOne(k, reply)
    \/ \E k \in 1..Len(reqs), reply \in AiReplies : AIMany(k, reply)
    \/ \E k \in 1..Len(reqs), directions \in Directions : RouteOk(k, directions)
    \/ \E k \in 1..Len(reqs) : RouteFailed(k)
    \/ RunEffects

Spec == Init /\ [][Next]_vars

(***************************************************************************)
(* calculateZoom in route mode, called on its own with distances around    *)
(* every threshold of its table.                                           *)
(***************************************************************************)
\* How far around each threshold the distances go, in metres.
MaxMargin == 3

\* The thresholds of the table, in metres.
Thresholds == {1000, 5000, 20000, 50000, 100000, 250000, 500000, 1000000, 2500000}

\* The distances between the endpoints of a route, in metres.
Distances ==
    {0, 20000000} \cup {t + e : t \in Thresholds, e \in (0 - MaxMargin)..MaxMargin}

InitRouteZoom ==
    Mounted /\ call \in [fn : {"calculateZoom"}, arg : Distances, done : {FALSE}, result : {0}]

\* The distance has been computed from the bounds; the table is applied.
CallRouteZoom ==
    /\ call.fn = "calculateZoom" /\ ~call.done
    /\ call' = [call EXCEPT !.done = TRUE, !.result = RouteZoom(call.arg)]
    /\ UNCHANGED <<messages, mapCenter, markers, route, isLoading, abortControllerRef,
                   aborted, zoom, pendingRequests, sinceLastRequest, timer, sinceLastCall,
                   subs, reqs, effects, lastStep>>

NextRouteZoom == CallRouteZoom

SpecRouteZoom == InitRouteZoom /\ [][NextRouteZoom]_vars

(***************************************************************************)
(* The handler's coordinate extraction, called on its own with AI texts of *)
(* up to MaxPairs bracketed pairs.                                         *)
(***************************************************************************)
\* The bracketed pairs an AI text holds at most.
MaxPairs == 3

\* The pairs the AI texts are made of; one is out of range.
AnswerPairs == {Pair(10000, 20000), Pair(30000, 40000), Pair(50000, 60000),
                Pair(95000, 20000)}

\* An AI text: a word, then the pairs with a blank before each.
RECURSIVE AnswerText(_)
AnswerText(pairs) ==
    IF Len(pairs) = 0 THEN <<W("Route")>>
    ELSE AnswerText(SubSeq(pairs, 1, Len(pairs) - 1)) \o <<W(" "), pairs[Len(pairs)]>>

AnswerTexts == {AnswerText(pairs) : pairs \in UNION {[1..n -> AnswerPairs] : n \in 0..MaxPairs}}

InitExtract ==
    Mounted /\ call \in [fn : {"extract"}, arg : AnswerTexts, done : {FALSE}, result : {<<>>}]

\* The match, the map over the matches and the choice of start and end.
CallExtract ==
    /\ call.fn = "extract" /\ ~call.done
    /\ call' = [call EXCEPT
                   !.done = TRUE,
                   !.result = IF ExtractionThrows(call.arg)
                              THEN [throws |-> TRUE, coordinates |-> <<>>, ends |-> <<>>]
                              ELSE [throws |-> FALSE,
                                    coordinates |-> ExtractCoordinates(call.arg),
                                    ends |-> StartEnd(ExtractCoordinates(call.arg))]]
    /\ UNCHANGED <<messages, mapCenter, markers, route, isLoading, abortControllerRef,
                   aborted, zoom, pendingRequests, sinceLastRequest, timer, sinceLastCall,
                   subs, reqs, effects, lastStep>>

NextExtract == CallExtract

SpecExtract == InitExtract /\ [][NextExtract]_vars

\* The zoom levels the user may choose on the map by hand.
ManualZooms == {12}

\* MapView reports the zoom of a finished zoom gesture: onZoomChange={setZoom}.
OnZoomChange(z) ==
    /\ ~EffectsDue
    /\ z # zoom
    /\ zoom' = z
    /\ UNCHANGED <<call, messages, mapCenter, markers, route, isLoading, abortControllerRef,
                   aborted, pendingRequests, sinceLastRequest, timer, sinceLastCall, subs,
                   reqs, effects, lastStep>>

\* The same component with a user who also zooms the map by hand.
NextZoom ==
    \/ Next
    \/ \E z \in ManualZooms : OnZoomChange(z)

SpecZoom == Init /\ [][NextZoom]_vars

\* Every awaited call returns, with a result or a failure, and the effects of
\* a commit run: the promises of the two services settle and React flushes
\* passive effects after each commit.
Returns(k) ==
    \/ \E reply \in AiReplies :
          AIThrown(k, reply) \/ AINone(k, reply) \/ AIOne(k, reply) \/ AIMany(k, reply)
    \/ \E directions \in Directions : RouteOk(k, directions)
    \/ RouteFailed(k)

SpecLive ==
    /\ Init /\ [][Next]_vars
    /\ WF_vars(RunEffects)
    /\ \A k \in 1..MaxSubs : WF_vars(Returns(k))

\* The same component while the AI service answers without coordinates or
\* fails: longer bursts of calls fit the bounds.
BurstReplies == {reply \in AiReplies : Len(CoordsMatches(GetAIResponse(reply))) = 0}

NextBurst ==
    \/ \E text \in UserTexts : OnSendMessage(text, MaxBurst)
    \/ Tick
    \/ RejectCooldown
    \/ ReturnBlank
    \/ Dispatch
    \/ \E k \in 1..Len(reqs), reply \in BurstReplies : AINone(k, reply)
    \/ RunEffects

SpecBurst == Init /\ [][NextBurst]_vars

(***************************************************************************)
(* Properties.                                                             *)
(***************************************************************************)
Chains == 1..Len(reqs)
InFlight(k) == reqs[k].pc \in {"awaitAI", "awaitRoute"}
Superseded(k) == \E j \in (k + 1)..Len(reqs) : reqs[j].pc # "returned"
HasStatus(k, statuses) ==
    \E i \in 1..Len(messages) :
        messages[i].id = reqs[k].id /\ messages[i].status \in statuses
HasMessage(k, kind) == \E i \in 1..Len(messages) : messages[i].id = Uuid(k, kind)

\* The time between the calls i and j of onSendMessage, i < j (a gap of
\* DEBOUNCE_WAIT stands for that much or more).
RECURSIVE Apart(_, _)
Apart(i, j) == IF j <= i THEN 0 ELSE subs[j].gap + Apart(i, j - 1)

\* C1: once a second request has been dispatched, the first request's chain,
\* still awaiting the AI or the routing service, changes none of messages,
\* markers, route, centre and zoom when its response arrives.
C1_SupersededChainDiscarded ==
    [][\A k \in Chains :
          (Superseded(k) /\ InFlight(k) /\ reqs'[k].pc # reqs[k].pc)
              => UNCHANGED shared]_vars

\* C2: a request whose user message is marked sent or error is no longer in
\* pendingRequests, however the requests overlap.
C2_TerminalIdNotPending ==
    \A k \in Chains : HasStatus(k, {"sent", "error"}) => reqs[k].id \notin pendingRequests

\* An older request has finished while a newer one is still in flight, and
\* its commit is on screen before the effects have run.
C2_Witness ==
    \E k \in Chains :
        /\ HasStatus(k, {"sent", "error"})
        /\ \E j \in (k + 1)..Len(reqs) : InFlight(j)
        /\ effects.d

\* C3: of two calls of onSendMessage less than 500 ms apart, the earlier
\* never reaches the handler: no pending id, no user message, no AI call.
C3_EarlierTextNeverDispatched ==
    \A i, j \in 1..Len(subs) :
        (i < j /\ Apart(i, j) < DEBOUNCE_WAIT)
            => /\ \A k \in Chains : reqs[k].sub # i
               /\ subs[i].fate \in {"collapsed", "cancelled"}

\* The message list changed between two calls less than 500 ms apart (the
\* earlier call's timer went with the old handler), and the later text is
\* with the AI service.
C3_Witness ==
    \E i, j \in 1..Len(subs) :
        /\ i < j
        /\ Apart(i, j) < DEBOUNCE_WAIT
        /\ subs[i].fate = "cancelled"
        /\ \E k \in Chains : reqs[k].sub = j /\ reqs[k].pc = "awaitAI"

\* C4: a text after which no call follows within 500 ms is dispatched or
\* rejected by the cooldown; its timer is never dropped.
C4_LastTextNeverDiscarded ==
    \A i \in 1..Len(subs) :
        subs[i].fate = "cancelled"
            => IF i < Len(subs) THEN subs[i + 1].gap < DEBOUNCE_WAIT
               ELSE sinceLastCall < DEBOUNCE_WAIT

\* C5: a handler invocation less than 1000 ms after the previous admitted one
\* throws and changes nothing; at 1000 ms or later it is admitted.
C5_CooldownRejectsCleanly ==
    [][\A i \in 1..Len(subs) :
          (subs[i].fate = "pending" /\ subs'[i].fate \in {"rejected", "invoked"})
              => IF sinceLastRequest < REQUEST_COOLDOWN
                 THEN /\ subs'[i].fate = "rejected"
                      /\ UNCHANGED <<messages, markers, route, mapCenter, zoom,
                                     pendingRequests, isLoading, sinceLastRequest,
                                     abortControllerRef, aborted, reqs>>
                 ELSE /\ subs'[i].fate = "invoked"
                      /\ Len(reqs') = Len(reqs) + 1
                      /\ sinceLastRequest' = 0]_vars

\* One invocation was admitted exactly 1000 ms after the previous one and
\* another was rejected.
C5_Witness ==
    /\ \E i \in 1..Len(subs) : subs[i].fate = "rejected"
    /\ \E k \in Chains : k > 1 /\ reqs[k].since = REQUEST_COOLDOWN

\* C6: a user message is appended as sending, changes status only from
\* sending to sent or error, and has done so when its chain ends; assistant
\* messages are appended without a status and never get one.
C6_StatusChangesOnce ==
    [][/\ Len(messages') >= Len(messages)
       /\ \A i \in 1..Len(messages) :
             messages'[i].status # messages[i].status
                 => /\ messages[i].isUser
                    /\ messages[i].status = "sending"
                    /\ messages'[i].status \in {"sent", "error"}
       /\ \A i \in (Len(messages) + 1)..Len(messages') :
             messages'[i].status = IF messages'[i].isUser THEN "sending" ELSE "none"
       /\ \A k \in 1..Len(reqs') :
             reqs'[k].pc = "done"
                 => \E i \in 1..Len(messages') :
                       /\ messages'[i].id = reqs'[k].id
                       /\ messages'[i].status \in {"sent", "error"}]_vars

\* A user message ended in error, and a later request has since marked its
\* own message sent.
C6_Witness ==
    \E i, j \in 1..Len(messages) :
        /\ i < j
        /\ messages[i].isUser /\ messages[i].status = "error"
        /\ messages[j].isUser /\ messages[j].status = "sent"

\* C7: a request whose AI call failed ends with an assistant apology and
\* its user message in status error.
C7_AIFailureMarksError ==
    \A k \in Chains :
        (reqs[k].pc = "done" /\ reqs[k].ai = "failed")
            => /\ HasStatus(k, {"error"})
               /\ HasMessage(k, "assistant") \/ HasMessage(k, "error")

\* C8: a request whose AI text holds an out-of-range pair drops the pair: it
\* shows no error message and its user message is marked sent.
C8_BadPairDropped ==
    \A k \in Chains :
        (reqs[k].pc = "done" /\ reqs[k].ai = "ok" /\ ExtractionThrows(reqs[k].aiResponse))
            => /\ HasStatus(k, {"sent"})
               /\ ~HasMessage(k, "error")

\* C9: after a route request has resolved with the service's path and the
\* effects have run, the markers are Start and End at the two coordinates,
\* the route is the service's path and the zoom is the route-mode zoom of
\* the two endpoints.
C9_RouteViewport ==
    \A k \in Chains :
        (lastStep = <<k, "routeOk">> /\ ~EffectsDue)
            => /\ Len(markers) = 2
               /\ markers[1].position = reqs[k].coordinates[1]
               /\ markers[1].popup = <<W("Start")>>
               /\ markers[2].position = reqs[k].coordinates[2]
               /\ markers[2].popup = <<W("End")>>
               /\ route \in {d.route : d \in Directions}
               /\ zoom = RouteZoom(HaversineMetres(reqs[k].coordinates[1],
                                                   reqs[k].coordinates[2]))

\* C10: after a request with exactly one coordinate has resolved and the
\* effects have run, the centre is that coordinate and the only marker is at
\* that coordinate.
C10_SingleLocationViewport ==
    \A k \in Chains :
        (lastStep = <<k, "one">> /\ ~EffectsDue)
            => /\ mapCenter = reqs[k].coordinates[1]
               /\ Len(markers) = 1
               /\ markers[1].position = reqs[k].coordinates[1]

\* The assistant messages (the error message included) request k has appended.
AssistantIndexes(k) ==
    {i \in 1..Len(messages) : ~messages[i].isUser /\ messages[i].id[1] = k}

\* C11: when a request with exactly one coordinate commits, the zoom is the
\* keyword class (building 18, else area 16, else city 13, else 17) of the
\* text of the user message that triggered it, whatever the earlier messages
\* say.
C11_ZoomFromTriggeringText ==
    \A k \in Chains :
        (lastStep = <<k, "one">> /\ EffectsDue)
            => zoom = CalculateZoom(<<[text |-> reqs[k].text]>>, <<>>, FALSE)

\* C12: when the routing call of a two-coordinate request fails, the route
\* becomes the straight line from start to end, the request has appended
\* exactly one assistant message, the AI text followed by the apology, and
\* no error message, and its user message is marked sent.
C12_RoutingFailureResolvesSent ==
    \A k \in Chains :
        /\ lastStep = <<k, "routeFailed">>
               => route = <<reqs[k].coordinates[1], reqs[k].coordinates[2]>>
        /\ (reqs[k].pc = "done" /\ reqs[k].end = "routeFailed")
               => /\ Cardinality(AssistantIndexes(k)) = 1
                  /\ \A i \in AssistantIndexes(k) :
                        messages[i].text = reqs[k].aiResponse \o
                            <<W("I apologize, but I couldn't calculate the detailed route at the moment.")>>
                  /\ ~HasMessage(k, "error")
                  /\ HasStatus(k, {"sent"})

\* The routing call of a request has failed, its commit's effects have run,
\* and the straight line is what the map draws.
C12_Witness ==
    \E k \in Chains :
        /\ lastStep = <<k, "routeFailed">>
        /\ ~EffectsDue
        /\ Len(route) = 2
        /\ HasStatus(k, {"sent"})

\* No handler invocation is in progress and no debounce timer is pending.
SteadyState ==
    /\ ~timer.set
    /\ ~EffectsDue
    /\ \A k \in Chains : ~InFlight(k)

\* C13: in steady state pendingRequests is empty, whatever invocations came
\* before: dispatched, blank, or rejected by the cooldown.
C13_SteadyStateNothingPending == SteadyState => pendingRequests = {}

\* C18: the id of a request awaiting the AI or the routing service is in
\* pendingRequests (the indicator is shown) until its own chain ends.
C18_InFlightIdPending ==
    \A k \in Chains : InFlight(k) => reqs[k].id \in pendingRequests

\* C19: isLoading is true, and the abort controller set, while any request is
\* awaiting the AI or the routing service, however the requests overlap.
C19_LoadingWhileInFlight ==
    \A k \in Chains : InFlight(k) => (isLoading /\ abortControllerRef # 0)

\* C14: every dispatched request ends: its user message is marked sent or
\* error and an assistant message of its own is in the chat, whichever way
\* its calls return.
C14_EveryRequestTerminates ==
    \A k \in 1..MaxSubs :
        (k \in Chains /\ InFlight(k))
            ~> (/\ k \in Chains
                /\ reqs[k].pc = "done"
                /\ HasStatus(k, {"sent", "error"})
                /\ AssistantIndexes(k) # {})

\* A request ended by the thrown path: error status and the error message.
C14_Witness ==
    \E k \in Chains :
        /\ reqs[k].pc = "done"
        /\ reqs[k].end = "thrown"
        /\ HasStatus(k, {"error"})
        /\ HasMessage(k, "error")

\* The kinds of handler step that produce a location or a route.
ResultKinds == {"one", "routeOk", "routeFailed"}

\* C15: while the zoom is one the user chose on the map, only a request's
\* location or route result (the commit and the effects that follow it)
\* changes zoom or centre: a dispatch, a resolution with no coordinate, an
\* error, or any other append to the message list leaves both as they are.
C15_ManualZoomKept ==
    [][LET resultStep == lastStep' # lastStep /\ lastStep'[2] \in ResultKinds
           resultEffects == EffectsDue /\ lastStep[2] \in ResultKinds
       IN  (zoom \in ManualZooms /\ ~resultStep /\ ~resultEffects)
               => /\ mapCenter' = mapCenter
                  /\ zoom' = zoom \/ zoom' \in ManualZooms]_vars

\* C16: the route-mode zoom depends on the distance alone, each threshold
\* being an exclusive upper bound: under 1 km 15, [1, 5) 13, [5, 20) 11,
\* [20, 50) 10, [50, 100) 9, [100, 250) 7, [250, 500) 6, [500, 1000) 5,
\* [1000, 2500) 4, 2500 km and more 3; the zoom never grows with distance.
C16_RouteZoomTable ==
    /\ (call.fn = "calculateZoom" /\ call.done)
           => LET d == call.arg
                  km == 1000
              IN  call.result =
                      CASE d < 1 * km -> 15
                        [] 1 * km <= d /\ d < 5 * km -> 13
                        [] 5 * km <= d /\ d < 20 * km -> 11
                        [] 20 * km <= d /\ d < 50 * km -> 10
                        [] 50 * km <= d /\ d < 100 * km -> 9
                        [] 100 * km <= d /\ d < 250 * km -> 7
                        [] 250 * km <= d /\ d < 500 * km -> 6
                        [] 500 * km <= d /\ d < 1000 * km -> 5
                        [] 1000 * km <= d /\ d < 2500 * km -> 4
                        [] 2500 * km <= d -> 3
    /\ \A d1, d2 \in Distances : d1 <= d2 => RouteZoom(d1) >= RouteZoom(d2)

\* The table has been applied to a distance of exactly 1 km.
C16_Witness ==
    call.fn = "calculateZoom" /\ call.done /\ call.arg = 1000 /\ call.result = 13

\* The positions of the bracketed pairs of a text, and the n-th of them.
PairPositions(text) == {i \in 1..Len(text) : text[i].k = "p"}
NthPair(text, n) ==
    LET i == CHOOSE i \in PairPositions(text) :
                 Cardinality({j \in PairPositions(text) : j <= i}) = n
    IN  <<text[i].a, text[i].b>>

\* C17: the coordinates extracted from an AI text are its bracketed pairs in
\* the order they appear in the text, and the first two of them, in that
\* order, are the start and the end of the route request.
C17_ExtractionKeepsOrder ==
    (call.fn = "extract" /\ call.done /\ ~call.result.throws)
        => /\ Len(call.result.coordinates) = Cardinality(PairPositions(call.arg))
           /\ \A n \in 1..Len(call.result.coordinates) :
                 call.result.coordinates[n] = NthPair(call.arg, n)
           /\ Len(call.result.coordinates) >= 2
                 => call.result.ends = <<NthPair(call.arg, 1), NthPair(call.arg, 2)>>

\* Three different pairs have been extracted, and the first two are the
\* start and the end.
C17_Witness ==
    /\ call.fn = "extract" /\ call.done /\ ~call.result.throws
    /\ call.result.coordinates = <<(<<30000, 40000>>), (<<10000, 20000>>), (<<50000, 60000>>)>>
    /\ call.result.ends = <<(<<30000, 40000>>), (<<10000, 20000>>)>>

\* The positions of the user message of request k in a message list.
UserIndexes(msgs, k) == {i \in 1..Len(msgs) : msgs[i].isUser /\ msgs[i].id = Uuid(k, "user")}
\* The positions of the messages request k has appended as the assistant.
ReplyIndexes(msgs, k) == {i \in 1..Len(msgs) : ~msgs[i].isUser /\ msgs[i].id[1] = k}

\* C20: no step removes or reorders a message or changes its id, text or
\* sender; a dispatched request has exactly one user message, no assistant
\* message before it ends and exactly one, placed after its user message,
\* once it has ended, whichever way it ended.
C20_MessagesAppendOnly ==
    [][/\ Len(messages') >= Len(messages)
       /\ \A i \in 1..Len(messages) :
             /\ messages'[i].id = messages[i].id
             /\ messages'[i].text = messages[i].text
             /\ messages'[i].isUser = messages[i].isUser
       /\ \A k \in 1..Len(reqs') :
             reqs'[k].pc # "returned"
                 => /\ Cardinality(UserIndexes(messages', k)) = 1
                    /\ Cardinality(ReplyIndexes(messages', k)) =
                           IF reqs'[k].pc = "done" THEN 1 ELSE 0
                    /\ \A i \in UserIndexes(messages', k), j \in ReplyIndexes(messages', k) :
                          i < j]_vars

\* Two requests overlapped and ended on different paths, one by the thrown
\* error and one with the service's route: five messages are in the chat.
C20_Witness ==
    /\ Len(messages) = 5
    /\ \E k1, k2 \in Chains :
          /\ reqs[k1].pc = "done" /\ reqs[k1].end = "thrown"
          /\ reqs[k2].pc = "done" /\ reqs[k2].end = "routeOk"
          /\ messages[2].isUser /\ messages[3].isUser

====
